---- MODULE Spec2Model ----
(***************************************************************************)
(* PerpTradeSim: the trend-following strategy engine (strategy.py) and the *)
(* bot coordinator that drives it (trading_bot.py, app.py).                *)
(*                                                                         *)
(* Numbers.  The program computes in floats; the model computes the same   *)
(* formulas exactly, in fixed point:                                       *)
(*   price               cents                 (100.00 USDC  = 10000)      *)
(*   position_size       USDC                  (slider step 10)            *)
(*   leverage            halves                (5.0x = 10, slider step .5) *)
(*   trading_fee         thousandths           (0.001 = 1)                 *)
(*   liquidation_threshold  tenths             (0.8 = 8)                   *)
(*   min_trend_strength  ten-thousandths       (0.0005 = 5, step 0.0001)   *)
(*   balance, fee, pnl   1/2000 USDC           (1000.0 USDC = 2000000)     *)
(*   liquidation_price   an exact fraction num/den of cents                *)
(*   timestamps          the number of price samples fetched so far        *)
(***************************************************************************)
EXTENDS Integers, Sequences, FiniteSets, TLC

VARIABLES
    strategy,   \* TradingBot.strategy: the TrendFollowingStrategy object
    bot,        \* the TradingBot's own fields
    clock,      \* datetime.now(), in samples fetched so far
    last_op,    \* the call that produced this state and what it returned
    cmds,       \* the number of foreground commands issued so far
    pc,         \* per thread: where it stands inside a non-atomic call
    loc,        \* per thread: the locals of that call
    loops       \* the live _price_update_loop threads, counted by position

vars == <<strategy, bot, clock, last_op, cmds, pc, loc, loops>>

(***************************************************************************)
(* Bounds of the model and the inputs it enumerates.                       *)
(***************************************************************************)
MaxTicks == 4
MaxCmds == 2
MaxConcTicks == 3

Prices == {420, 500, 580}
Sides == {"long", "short"}
LeverageChoices == {2, 10, 20}
SizeChoices == {50, 100}
LookbackChoices == {2, 3}
TrendStrengthChoices == {5}

(***************************************************************************)
(* Program constants.                                                      *)
(***************************************************************************)
PRICE_HISTORY_CAP == 1000
PRICE_HISTORY_KEEP == 500
TRADE_LOG_CAP == 100
TRADE_LOG_KEEP == 50
MAX_ERRORS == 10
NoPrice == -1
InitialBalance == 1000 * 2000

NoPosition ==
    [side |-> "none", entry_price |-> 0, size |-> 0, leverage |-> 0,
     entry_time |-> 0, liquidation_price |-> [num |-> 0, den |-> 1]]

NoTrade ==
    [side |-> "none", entry_price |-> 0, exit_price |-> 0, size |-> 0,
     leverage |-> 0, entry_time |-> 0, exit_time |-> 0, pnl |-> 0,
     reason |-> "none"]

(***************************************************************************)
(* class Position                                                          *)
(***************************************************************************)
calculate_pnl(pos, current_price) ==
    IF pos.side = "long"
    THEN (current_price - pos.entry_price) * pos.size * pos.leverage * 10
    ELSE (pos.entry_price - current_price) * pos.size * pos.leverage * 10

\* is_liquidated with strict comparisons: a price equal to the level survives
is_liquidated_strict(pos, current_price) ==
    IF pos.side = "long"
    THEN current_price * pos.liquidation_price.den < pos.liquidation_price.num
    ELSE current_price * pos.liquidation_price.den > pos.liquidation_price.num

is_liquidated(pos, current_price) ==
    IF pos.side = "long"
    THEN current_price * pos.liquidation_price.den <= pos.liquidation_price.num
    ELSE current_price * pos.liquidation_price.den >= pos.liquidation_price.num

(***************************************************************************)
(* class TrendFollowingStrategy                                            *)
(***************************************************************************)
StrategyInit ==
    [lookback_periods |-> 3,
     min_trend_strength |-> 5,
     leverage |-> 10,
     position_size |-> 100,
     trading_fee |-> 1,
     liquidation_threshold |-> 8,
     price_history |-> <<>>,
     current_position |-> NoPosition,
     completed_trades |-> <<>>,
     balance |-> InitialBalance,
     total_fees_paid |-> 0]

\* a trim that keeps the oldest entries
Trim_oldest(s, cap, keep) ==
    IF Len(s) > cap THEN SubSeq(s, 1, keep) ELSE s

Trim(s, cap, keep) ==
    IF Len(s) > cap THEN SubSeq(s, Len(s) - keep + 1, Len(s)) ELSE s

add_price(st, timestamp, price) ==
    [st EXCEPT !.price_history =
        Trim(Append(st.price_history, [timestamp |-> timestamp, price |-> price]),
             PRICE_HISTORY_CAP, PRICE_HISTORY_KEEP)]

\* price_history[-(lookback_periods + 1):], the whole list when it is shorter
recent_prices(st) ==
    LET n == Len(st.price_history)
        k == IF n < st.lookback_periods + 1 THEN n ELSE st.lookback_periods + 1
    IN  [i \in 1..k |-> st.price_history[n - k + i].price]

\* higher_highs with >= in place of >
higher_highs_nonstrict(st) ==
    LET rp == recent_prices(st)
    IN  \A i \in 2..Len(rp) :
            rp[i] * 10000 >= rp[i - 1] * (10000 + st.min_trend_strength)

higher_highs(st) ==
    LET rp == recent_prices(st)
    IN  \A i \in 2..Len(rp) :
            rp[i] * 10000 > rp[i - 1] * (10000 + st.min_trend_strength)

lower_lows(st) ==
    LET rp == recent_prices(st)
    IN  \A i \in 2..Len(rp) :
            rp[i] * 10000 < rp[i - 1] * (10000 - st.min_trend_strength)

\* detect_trend asking for lookback_periods samples, one too few
detect_trend_short(st) ==
    IF Len(st.price_history) < st.lookback_periods THEN "none"
    ELSE IF higher_highs(st) THEN "bullish"
    ELSE IF lower_lows(st) THEN "bearish"
    ELSE "none"

detect_trend(st) ==
    IF Len(st.price_history) < st.lookback_periods + 1 THEN "none"
    ELSE IF higher_highs(st) THEN "bullish"
    ELSE IF lower_lows(st) THEN "bearish"
    ELSE "none"

\* the liquidation distance without the threshold factor: entry / leverage
calculate_liquidation_price_full(st, entry_price, side) ==
    LET den == 5 * st.leverage
        liquidation_distance == entry_price * 10
    IN  IF side = "long"
        THEN [num |-> entry_price * den - liquidation_distance, den |-> den]
        ELSE [num |-> entry_price * den + liquidation_distance, den |-> den]

\* entry_price / leverage * liquidation_threshold = entry * thr / (5 * lev)
calculate_liquidation_price(st, entry_price, side) ==
    LET den == 5 * st.leverage
        liquidation_distance == entry_price * st.liquidation_threshold
    IN  IF side = "long"
        THEN [num |-> entry_price * den - liquidation_distance, den |-> den]
        ELSE [num |-> entry_price * den + liquidation_distance, den |-> den]

calculate_trading_fee(st, notional_value) ==
    notional_value * st.trading_fee

\* open_position without the test of lines 127-128: a later open overwrites
open_position_overwrite(st, side, price, timestamp) ==
    LET fee == calculate_trading_fee(st, st.position_size * st.leverage)
    IN  IF st.balance < fee THEN [st |-> st, ret |-> FALSE]
        ELSE
        [st |-> [st EXCEPT
                    !.balance = @ - fee,
                    !.total_fees_paid = @ + fee,
                    !.current_position =
                        [side |-> side, entry_price |-> price,
                         size |-> st.position_size, leverage |-> st.leverage,
                         entry_time |-> timestamp,
                         liquidation_price |->
                            calculate_liquidation_price(st, price, side)]],
         ret |-> TRUE]

\* open_position without the balance test of lines 135-137
open_position_nobalance(st, side, price, timestamp) ==
    IF st.current_position # NoPosition THEN [st |-> st, ret |-> FALSE]
    ELSE
    LET fee == calculate_trading_fee(st, st.position_size * st.leverage)
    IN  [st |-> [st EXCEPT
                    !.balance = @ - fee,
                    !.total_fees_paid = @ + fee,
                    !.current_position =
                        [side |-> side, entry_price |-> price,
                         size |-> st.position_size, leverage |-> st.leverage,
                         entry_time |-> timestamp,
                         liquidation_price |->
                            calculate_liquidation_price(st, price, side)]],
         ret |-> TRUE]

open_position(st, side, price, timestamp) ==
    IF st.current_position # NoPosition THEN [st |-> st, ret |-> FALSE]
    ELSE
    LET notional_value == st.position_size * st.leverage
        fee == calculate_trading_fee(st, notional_value)
    IN  IF st.balance < fee THEN [st |-> st, ret |-> FALSE]
        ELSE
        [st |-> [st EXCEPT
                    !.balance = @ - fee,
                    !.total_fees_paid = @ + fee,
                    !.current_position =
                        [side |-> side,
                         entry_price |-> price,
                         size |-> st.position_size,
                         leverage |-> st.leverage,
                         entry_time |-> timestamp,
                         liquidation_price |->
                            calculate_liquidation_price(st, price, side)]],
         ret |-> TRUE]

\* close_position, statement by statement; the threads of SpecConc take these
\* one at a time, close_position composes them.
\* close_position without the test of lines 166-167
close_guard_never(st) ==
    FALSE

close_guard(st) ==
    st.current_position = NoPosition

close_fee(st) ==
    calculate_trading_fee(st, st.current_position.size * st.leverage)

\* the trade records the gross PnL
net_pnl_gross(pnl, fee) ==
    pnl

net_pnl(pnl, fee) ==
    pnl - fee

\* the exit fee leaves the balance once only (line 175 dropped)
close_settle_single_fee(st, pnl, fee) ==
    [st EXCEPT !.balance = @ + net_pnl(pnl, fee),
               !.total_fees_paid = @ + fee]

close_settle(st, pnl, fee) ==
    [st EXCEPT !.balance = (@ - fee) + net_pnl(pnl, fee),
               !.total_fees_paid = @ + fee]

close_trade(st, price, timestamp, pnl, fee, reason) ==
    [side |-> st.current_position.side,
     entry_price |-> st.current_position.entry_price,
     exit_price |-> price,
     size |-> st.current_position.size,
     leverage |-> st.current_position.leverage,
     entry_time |-> st.current_position.entry_time,
     exit_time |-> timestamp,
     pnl |-> net_pnl(pnl, fee),
     reason |-> reason]

\* close_position recording the newest Trade first
close_position_newest_first(st, price, timestamp, reason) ==
    IF close_guard(st) THEN [st |-> st, trade |-> NoTrade]
    ELSE
    LET pnl == calculate_pnl(st.current_position, price)
        fee == close_fee(st)
        s1 == close_settle(st, pnl, fee)
        trade == close_trade(s1, price, timestamp, pnl, fee, reason)
    IN  [st |-> [s1 EXCEPT !.completed_trades = <<trade>> \o @,
                           !.current_position = NoPosition],
         trade |-> trade]

close_position(st, price, timestamp, reason) ==
    IF close_guard(st) THEN [st |-> st, trade |-> NoTrade]
    ELSE
    LET pnl == calculate_pnl(st.current_position, price)
        fee == close_fee(st)
        s1 == close_settle(st, pnl, fee)
        trade == close_trade(s1, price, timestamp, pnl, fee, reason)
    IN  [st |-> [s1 EXCEPT !.completed_trades = Append(@, trade),
                           !.current_position = NoPosition],
         trade |-> trade]

check_liquidation(st, price, timestamp) ==
    IF st.current_position = NoPosition THEN [st |-> st, trade |-> NoTrade]
    ELSE IF is_liquidated(st.current_position, price)
         THEN close_position(st, price, timestamp, "liquidation")
         ELSE [st |-> st, trade |-> NoTrade]

\* entry signals with the sides exchanged
entry_logic_swapped(st, trend, timestamp, price) ==
    IF trend = "bullish"
    THEN LET o == open_position(st, "short", price, timestamp)
         IN  [st |-> o.st, action |-> IF o.ret THEN "opened_short" ELSE "none",
              trade |-> NoTrade]
    ELSE IF trend = "bearish"
    THEN LET o == open_position(st, "long", price, timestamp)
         IN  [st |-> o.st, action |-> IF o.ret THEN "opened_long" ELSE "none",
              trade |-> NoTrade]
    ELSE [st |-> st, action |-> "none", trade |-> NoTrade]

\* lines 228-234: no position, look for entry signals
entry_logic(st, trend, timestamp, price) ==
    IF trend = "bullish"
    THEN LET o == open_position(st, "long", price, timestamp)
         IN  [st |-> o.st, action |-> IF o.ret THEN "opened_long" ELSE "none",
              trade |-> NoTrade]
    ELSE IF trend = "bearish"
    THEN LET o == open_position(st, "short", price, timestamp)
         IN  [st |-> o.st, action |-> IF o.ret THEN "opened_short" ELSE "none",
              trade |-> NoTrade]
    ELSE [st |-> st, action |-> "none", trade |-> NoTrade]

\* the exit test without the side: any trend closes the position
trend_reversed_any(st, trend) ==
    trend # "none"

\* lines 240-241: the trend opposes the open position
trend_reversed(st, trend) ==
    \/ st.current_position.side = "long" /\ trend = "bearish"
    \/ st.current_position.side = "short" /\ trend = "bullish"

\* a reversal that closes the position and enters the opposite side at once
exit_logic_flip(st, trend, timestamp, price) ==
    IF trend_reversed(st, trend)
    THEN LET c == close_position(st, price, timestamp, "trend_reversal")
             o == entry_logic(c.st, trend, timestamp, price)
         IN  [st |-> o.st, action |-> "closed_position", trade |-> c.trade]
    ELSE [st |-> st, action |-> "none", trade |-> NoTrade]

\* a held position marked to market: the unrealized PnL credited at once
exit_logic_marked(st, trend, timestamp, price) ==
    IF trend_reversed(st, trend)
    THEN LET c == close_position(st, price, timestamp, "trend_reversal")
         IN  [st |-> c.st, action |-> "closed_position", trade |-> c.trade]
    ELSE [st |-> [st EXCEPT !.balance = @ + calculate_pnl(st.current_position, price)],
          action |-> "none", trade |-> NoTrade]

\* lines 236-243: have a position, look for exit signals
exit_logic(st, trend, timestamp, price) ==
    IF trend_reversed(st, trend)
    THEN LET c == close_position(st, price, timestamp, "trend_reversal")
         IN  [st |-> c.st, action |-> "closed_position", trade |-> c.trade]
    ELSE [st |-> st, action |-> "none", trade |-> NoTrade]

\* lines 224-245
trend_logic(st, timestamp, price) ==
    LET trend == detect_trend(st)
    IN  IF st.current_position = NoPosition
        THEN entry_logic(st, trend, timestamp, price)
        ELSE exit_logic(st, trend, timestamp, price)

\* process_price_update without the early return of line 222
process_price_update_fallthrough(st, timestamp, price) ==
    LET s1 == add_price(st, timestamp, price)
        liq == check_liquidation(s1, price, timestamp)
    IN  trend_logic(liq.st, timestamp, price)

process_price_update(st, timestamp, price) ==
    LET s1 == add_price(st, timestamp, price)
        liq == check_liquidation(s1, price, timestamp)
    IN  IF liq.trade # NoTrade
        THEN [st |-> liq.st, action |-> "liquidated", trade |-> liq.trade]
        ELSE trend_logic(liq.st, timestamp, price)

get_current_pnl(st, current_price) ==
    IF st.current_position = NoPosition THEN 0
    ELSE calculate_pnl(st.current_position, current_price)

\* sum(trade.pnl for trade in trades)
RECURSIVE sum_pnl(_)
sum_pnl(trades) ==
    IF trades = <<>> THEN 0 ELSE Head(trades).pnl + sum_pnl(Tail(trades))

get_total_realized_pnl(st) == sum_pnl(st.completed_trades)

IsWin(t) == t.pnl > 0
IsLoss(t) == t.pnl < 0

\* (winning_trades / len(completed_trades)) * 100, as a fraction
get_win_rate(st) ==
    IF st.completed_trades = <<>> THEN [num |-> 0, den |-> 1]
    ELSE [num |-> 100 * Len(SelectSeq(st.completed_trades, IsWin)),
          den |-> Len(st.completed_trades)]

\* np.mean of the pnl of trades, 0 for an empty list, as a fraction
mean_pnl(trades) ==
    IF trades = <<>> THEN [num |-> 0, den |-> 1]
    ELSE [num |-> sum_pnl(trades), den |-> Len(trades)]

abs(x) == IF x < 0 THEN 0 - x ELSE x

\* float('inf')
Infinity == [inf |-> TRUE, num |-> 0, den |-> 1]

\* get_stats with profit_factor infinity for an empty ledger as well
profit_factor_unbounded(st) ==
    LET avg_win == mean_pnl(SelectSeq(st.completed_trades, IsWin))
        avg_loss == mean_pnl(SelectSeq(st.completed_trades, IsLoss))
    IN  IF avg_loss.num # 0
        THEN [inf |-> FALSE,
              num |-> abs(avg_win.num * avg_loss.den),
              den |-> abs(avg_win.den * avg_loss.num)]
        ELSE Infinity

\* lines 271-284: abs(avg_win / avg_loss), inf without a loss, 0 without a trade
profit_factor(st) ==
    IF Len(st.completed_trades) > 0
    THEN LET avg_win == mean_pnl(SelectSeq(st.completed_trades, IsWin))
             avg_loss == mean_pnl(SelectSeq(st.completed_trades, IsLoss))
         IN  IF avg_loss.num # 0
             THEN [inf |-> FALSE,
                   num |-> abs(avg_win.num * avg_loss.den),
                   den |-> abs(avg_win.den * avg_loss.num)]
             ELSE Infinity
    ELSE [inf |-> FALSE, num |-> 0, den |-> 1]

get_stats(st) ==
    [total_trades |-> Len(st.completed_trades),
     realized_pnl |-> get_total_realized_pnl(st),
     win_rate |-> get_win_rate(st),
     avg_win |-> IF Len(st.completed_trades) > 0
                 THEN mean_pnl(SelectSeq(st.completed_trades, IsWin))
                 ELSE [num |-> 0, den |-> 1],
     avg_loss |-> IF Len(st.completed_trades) > 0
                  THEN mean_pnl(SelectSeq(st.completed_trades, IsLoss))
                  ELSE [num |-> 0, den |-> 1],
     profit_factor |-> profit_factor(st),
     total_fees |-> st.total_fees_paid,
     current_balance |-> st.balance]

(***************************************************************************)
(* class TradingBot                                                        *)
(***************************************************************************)
BotInit ==
    [is_running |-> FALSE,
     last_price |-> NoPrice,
     last_update |-> 0,
     price_history |-> <<>>,
     trade_log |-> <<>>,
     error_count |-> 0]

\* _log_trading_action without the trim of lines 128-129
log_trading_action_uncapped(b, st, action, price, timestamp) ==
    LET log_entry ==
            [timestamp |-> timestamp, action |-> action, price |-> price,
             position_side |-> st.current_position.side,
             position_size |-> st.current_position.size,
             leverage |-> st.current_position.leverage,
             unrealized_pnl |-> get_current_pnl(st, price)]
    IN  [b EXCEPT !.trade_log = Append(b.trade_log, log_entry)]

log_trading_action(b, st, action, price, timestamp) ==
    LET log_entry ==
            [timestamp |-> timestamp, action |-> action, price |-> price,
             position_side |-> st.current_position.side,
             position_size |-> st.current_position.size,
             leverage |-> st.current_position.leverage,
             unrealized_pnl |-> get_current_pnl(st, price)]
    IN  [b EXCEPT !.trade_log =
            Trim(Append(b.trade_log, log_entry), TRADE_LOG_CAP, TRADE_LOG_KEEP)]

\* the branch of _fetch_and_process_price taken when the feed returned a price
fetch_and_process_price(b, st, price, timestamp) ==
    LET b1 == [b EXCEPT !.price_history =
                   Trim(Append(b.price_history,
                               [timestamp |-> timestamp, price |-> price]),
                        PRICE_HISTORY_CAP, PRICE_HISTORY_KEEP)]
        r == process_price_update(st, timestamp, price)
        b2 == IF r.action # "none"
              THEN log_trading_action(b1, r.st, r.action, price, timestamp)
              ELSE b1
    IN  [bot |-> [b2 EXCEPT !.last_price = price,
                            !.last_update = timestamp,
                            !.error_count = 0],
         st |-> r.st, action |-> r.action, trade |-> r.trade]

\* `not self.last_price`: None and 0.0 are both falsy
no_last_price(b) == b.last_price = NoPrice \/ b.last_price = 0

manual_close_position(b, st, now) ==
    IF st.current_position = NoPosition
    THEN [bot |-> b, st |-> st, trade |-> NoTrade]
    ELSE IF no_last_price(b)
    THEN [bot |-> b, st |-> st, trade |-> NoTrade]
    ELSE
    LET c == close_position(st, b.last_price, now, "manual")
    IN  IF c.trade # NoTrade
        THEN [bot |-> log_trading_action(b, c.st, "manual_close", b.last_price, now),
              st |-> c.st, trade |-> c.trade]
        ELSE [bot |-> b, st |-> c.st, trade |-> NoTrade]

\* a parameter update that also re-levers the open position
update_strategy_params_retro(st, leverage, position_size, lookback_periods, min_trend_strength) ==
    LET s1 == [st EXCEPT !.leverage = leverage,
                         !.position_size = position_size,
                         !.lookback_periods = lookback_periods,
                         !.min_trend_strength = min_trend_strength]
    IN  IF st.current_position = NoPosition THEN s1
        ELSE [s1 EXCEPT !.current_position.leverage = leverage,
                        !.current_position.liquidation_price =
                            calculate_liquidation_price(s1,
                                st.current_position.entry_price,
                                st.current_position.side)]

\* the application passes all four parameters (app.py 313-318)
update_strategy_params(st, leverage, position_size, lookback_periods, min_trend_strength) ==
    [st EXCEPT !.leverage = leverage,
               !.position_size = position_size,
               !.lookback_periods = lookback_periods,
               !.min_trend_strength = min_trend_strength]

reset_strategy(b, st, now) ==
    LET m == IF st.current_position # NoPosition
             THEN manual_close_position(b, st, now)
             ELSE [bot |-> b, st |-> st, trade |-> NoTrade]
    IN  [bot |-> [m.bot EXCEPT !.trade_log = <<>>],
         st |-> [m.st EXCEPT !.completed_trades = <<>>,
                             !.balance = InitialBalance,
                             !.total_fees_paid = 0],
         trade |-> m.trade]

\* how many update threads are alive
LiveLoops(l) == l.head + l.body

\* start without the test of lines 41-42
start_unguarded(b, l) ==
    [bot |-> [b EXCEPT !.is_running = TRUE, !.error_count = 0],
     loops |-> [l EXCEPT !.head = @ + 1],
     ret |-> "started"]

\* the new thread begins at the `while self.is_running` test
start(b, l) ==
    IF b.is_running THEN [bot |-> b, loops |-> l, ret |-> "noop"]
    ELSE [bot |-> [b EXCEPT !.is_running = TRUE, !.error_count = 0],
          loops |-> [l EXCEPT !.head = @ + 1],
          ret |-> "started"]

\* join(timeout=5) waits and changes no field: the thread may or may not
\* have ended when stop returns
stop(b) == [b EXCEPT !.is_running = FALSE]

\* the except branch of _price_update_loop, lines 67-76
loop_except(b) ==
    [bot |-> [b EXCEPT !.error_count = @ + 1,
                       !.is_running = IF b.error_count + 1 >= MAX_ERRORS
                                      THEN FALSE ELSE @],
     break |-> b.error_count + 1 >= MAX_ERRORS]

(***************************************************************************)
(* The state machine: every call is one atomic step.                       *)
(***************************************************************************)
Threads == {"bg", "fg"}

NoLocals ==
    [price |-> 0, timestamp |-> 0, reason |-> "none", pnl |-> 0, fee |-> 0,
     trade |-> NoTrade, action |-> "none"]

Op(op, ret, trade) == [op |-> op, ret |-> ret, trade |-> trade]

\* no update thread exists before the first start()
NoLoops == [head |-> 0, body |-> 0]

Init ==
    /\ strategy = StrategyInit
    /\ bot = BotInit
    /\ clock = 0
    /\ cmds = 0
    /\ last_op = Op("init", "none", NoTrade)
    /\ pc = [t \in Threads |-> "idle"]
    /\ loc = [t \in Threads |-> NoLocals]
    /\ loops = NoLoops

\* one iteration of the update loop (or "Fetch Price Now") with a price
Tick(p) ==
    /\ pc["bg"] = "idle"
    /\ clock < MaxTicks
    /\ LET r == fetch_and_process_price(bot, strategy, p, clock + 1)
       IN  /\ strategy' = r.st
           /\ bot' = r.bot
           /\ last_op' = Op("tick", r.action, r.trade)
    /\ clock' = clock + 1
    /\ UNCHANGED <<cmds, pc, loc>>
    /\ UNCHANGED loops

\* app.py 275/282: strategy.open_position(side, bot.last_price, now); the
\* has_position test of app.py 271 is stale once the update loop runs
ManualOpen(side) ==
    /\ pc["fg"] = "idle"
    /\ cmds < MaxCmds
    /\ bot.last_price # NoPrice
    /\ LET r == open_position(strategy, side, bot.last_price, clock)
       IN  /\ strategy' = r.st
           /\ last_op' = Op("open_position", IF r.ret THEN "true" ELSE "false", NoTrade)
    /\ cmds' = cmds + 1
    /\ UNCHANGED <<bot, clock, pc, loc>>
    /\ UNCHANGED loops

ManualClose ==
    /\ pc["fg"] = "idle"
    /\ cmds < MaxCmds
    /\ LET r == manual_close_position(bot, strategy, clock)
       IN  /\ strategy' = r.st
           /\ bot' = r.bot
           /\ last_op' = Op("manual_close", IF r.trade = NoTrade THEN "none" ELSE "trade",
                            r.trade)
    /\ cmds' = cmds + 1
    /\ UNCHANGED <<clock, pc, loc>>
    /\ UNCHANGED loops

UpdateParams ==
    /\ pc["fg"] = "idle"
    /\ cmds < MaxCmds
    /\ \E lev \in LeverageChoices, sz \in SizeChoices,
          lb \in LookbackChoices, mts \in TrendStrengthChoices :
          strategy' = update_strategy_params(strategy, lev, sz, lb, mts)
    /\ last_op' = Op("update_params", "none", NoTrade)
    /\ cmds' = cmds + 1
    /\ UNCHANGED <<bot, clock, pc, loc>>
    /\ UNCHANGED loops

Reset ==
    /\ pc["fg"] = "idle"
    /\ cmds < MaxCmds
    /\ LET r == reset_strategy(bot, strategy, clock)
       IN  /\ strategy' = r.st
           /\ bot' = r.bot
           /\ last_op' = Op("reset", "none", r.trade)
    /\ cmds' = cmds + 1
    /\ UNCHANGED <<clock, pc, loc>>
    /\ UNCHANGED loops

Next ==
    \/ \E p \in Prices : Tick(p)
    \/ \E side \in Sides : ManualOpen(side)
    \/ ManualClose
    \/ UpdateParams
    \/ Reset

Spec == Init /\ [][Next]_vars

(***************************************************************************)
(* The same calls without atomicity.  The update loop runs in a daemon     *)
(* thread ("bg") and the application's callbacks in the script thread      *)
(* ("fg"); no lock guards the strategy object, so the statements of a tick *)
(* and of manual_close_position interleave.  A step is one statement (or a *)
(* few consecutive ones) of the source.  Reading a field of                *)
(* current_position when it is None raises AttributeError.                 *)
(***************************************************************************)
Goto(t, label) == pc' = [pc EXCEPT ![t] = label]

\* trading_bot.py 80-98, strategy.py 218
BgFetch(p) ==
    /\ pc["bg"] = "idle"
    /\ clock < MaxConcTicks
    /\ clock' = clock + 1
    /\ bot' = [bot EXCEPT !.price_history =
                  Trim(Append(@, [timestamp |-> clock + 1, price |-> p]),
                       PRICE_HISTORY_CAP, PRICE_HISTORY_KEEP)]
    /\ strategy' = add_price(strategy, clock + 1, p)
    /\ loc' = [loc EXCEPT !["bg"] = [NoLocals EXCEPT !.price = p,
                                                     !.timestamp = clock + 1]]
    /\ Goto("bg", "check_liquidation")
    /\ UNCHANGED <<last_op, cmds>>
    /\ UNCHANGED loops

\* strategy.py 203-207
BgCheckLiquidation ==
    /\ pc["bg"] = "check_liquidation"
    /\ IF /\ strategy.current_position # NoPosition
          /\ is_liquidated(strategy.current_position, loc["bg"].price)
       THEN /\ loc' = [loc EXCEPT !["bg"].reason = "liquidation"]
            /\ Goto("bg", "close_check")
       ELSE /\ Goto("bg", "trend")
            /\ UNCHANGED loc
    /\ UNCHANGED <<strategy, bot, clock, last_op, cmds>>
    /\ UNCHANGED loops

\* strategy.py 225-245, up to the call of close_position
BgTrend ==
    /\ pc["bg"] = "trend"
    /\ LET trend == detect_trend(strategy)
       IN  IF strategy.current_position = NoPosition
           THEN LET r == entry_logic(strategy, trend, loc["bg"].timestamp,
                                     loc["bg"].price)
                IN  /\ strategy' = r.st
                    /\ loc' = [loc EXCEPT !["bg"].action = r.action]
                    /\ Goto("bg", "finish")
           ELSE IF trend_reversed(strategy, trend)
           THEN /\ loc' = [loc EXCEPT !["bg"].reason = "trend_reversal"]
                /\ Goto("bg", "close_check")
                /\ UNCHANGED strategy
           ELSE /\ Goto("bg", "finish")
                /\ UNCHANGED <<strategy, loc>>
    /\ UNCHANGED <<bot, clock, last_op, cmds>>
    /\ UNCHANGED loops

\* strategy.py 166-167
CloseCheck(t) ==
    /\ pc[t] = "close_check"
    /\ IF close_guard(strategy)
       THEN /\ loc' = [loc EXCEPT ![t].trade = NoTrade]
            /\ Goto(t, "close_return")
       ELSE /\ Goto(t, "close_pnl")
            /\ UNCHANGED loc
    /\ UNCHANGED <<strategy, bot, clock, last_op, cmds>>
    /\ UNCHANGED loops

\* strategy.py 170-174
ClosePnl(t) ==
    /\ pc[t] = "close_pnl"
    /\ IF strategy.current_position = NoPosition
       THEN /\ Goto(t, "raised")
            /\ UNCHANGED loc
       ELSE /\ loc' = [loc EXCEPT
                          ![t].pnl = calculate_pnl(strategy.current_position,
                                                   loc[t].price),
                          ![t].fee = close_fee(strategy)]
            /\ Goto(t, "close_settle")
    /\ UNCHANGED <<strategy, bot, clock, last_op, cmds>>
    /\ UNCHANGED loops

\* strategy.py 175-180
CloseSettle(t) ==
    /\ pc[t] = "close_settle"
    /\ strategy' = close_settle(strategy, loc[t].pnl, loc[t].fee)
    /\ Goto(t, "close_record")
    /\ UNCHANGED <<bot, clock, last_op, cmds, loc>>
    /\ UNCHANGED loops

\* strategy.py 183-195
CloseRecord(t) ==
    /\ pc[t] = "close_record"
    /\ IF strategy.current_position = NoPosition
       THEN /\ Goto(t, "raised")
            /\ UNCHANGED <<strategy, loc>>
       ELSE LET trade == close_trade(strategy, loc[t].price, loc[t].timestamp,
                                     loc[t].pnl, loc[t].fee, loc[t].reason)
            IN  /\ strategy' = [strategy EXCEPT !.completed_trades = Append(@, trade)]
                /\ loc' = [loc EXCEPT ![t].trade = trade]
                /\ Goto(t, "close_clear")
    /\ UNCHANGED <<bot, clock, last_op, cmds>>
    /\ UNCHANGED loops

\* strategy.py 196-199
CloseClear(t) ==
    /\ pc[t] = "close_clear"
    /\ IF strategy.current_position = NoPosition
       THEN /\ Goto(t, "raised")
            /\ UNCHANGED strategy
       ELSE /\ strategy' = [strategy EXCEPT !.current_position = NoPosition]
            /\ Goto(t, "close_return")
    /\ UNCHANGED <<bot, clock, last_op, cmds, loc>>
    /\ UNCHANGED loops

\* strategy.py 221-222 and 242-243: back in process_price_update
BgAfterClose ==
    /\ pc["bg"] = "close_return"
    /\ IF loc["bg"].reason = "liquidation"
       THEN IF loc["bg"].trade # NoTrade
            THEN /\ loc' = [loc EXCEPT !["bg"].action = "liquidated"]
                 /\ Goto("bg", "finish")
            ELSE /\ Goto("bg", "trend")
                 /\ UNCHANGED loc
       ELSE /\ loc' = [loc EXCEPT !["bg"].action = "closed_position"]
            /\ Goto("bg", "finish")
    /\ UNCHANGED <<strategy, bot, clock, last_op, cmds>>
    /\ UNCHANGED loops

\* trading_bot.py 103-108
BgFinish ==
    /\ pc["bg"] = "finish"
    /\ LET l == loc["bg"]
           b1 == IF l.action # "none"
                 THEN log_trading_action(bot, strategy, l.action, l.price, l.timestamp)
                 ELSE bot
       IN  /\ bot' = [b1 EXCEPT !.last_price = l.price,
                                !.last_update = l.timestamp,
                                !.error_count = 0]
           /\ last_op' = Op("tick", l.action, l.trade)
    /\ loc' = [loc EXCEPT !["bg"] = NoLocals]
    /\ Goto("bg", "idle")
    /\ UNCHANGED <<strategy, clock, cmds>>
    /\ UNCHANGED loops

\* trading_bot.py 67-76: the loop catches what the iteration raised
BgRaised ==
    /\ pc["bg"] = "raised"
    /\ bot' = [bot EXCEPT !.error_count = @ + 1,
                          !.is_running = IF bot.error_count + 1 >= MAX_ERRORS
                                         THEN FALSE ELSE @]
    /\ last_op' = Op("tick", "raised", NoTrade)
    /\ loc' = [loc EXCEPT !["bg"] = NoLocals]
    /\ Goto("bg", "idle")
    /\ UNCHANGED <<strategy, clock, cmds>>
    /\ UNCHANGED loops

\* trading_bot.py 183-197, up to the call of close_position
FgManualClose ==
    /\ pc["fg"] = "idle"
    /\ cmds < MaxCmds
    /\ cmds' = cmds + 1
    /\ IF strategy.current_position = NoPosition \/ no_last_price(bot)
       THEN /\ last_op' = Op("manual_close", "none", NoTrade)
            /\ UNCHANGED <<pc, loc>>
       ELSE /\ loc' = [loc EXCEPT !["fg"] = [NoLocals EXCEPT !.price = bot.last_price,
                                                             !.timestamp = clock,
                                                             !.reason = "manual"]]
            /\ Goto("fg", "close_check")
            /\ UNCHANGED last_op
    /\ UNCHANGED <<strategy, bot, clock>>
    /\ UNCHANGED loops

\* trading_bot.py 199-205
FgAfterClose ==
    /\ pc["fg"] = "close_return"
    /\ IF loc["fg"].trade # NoTrade
       THEN /\ bot' = log_trading_action(bot, strategy, "manual_close",
                                         bot.last_price, clock)
            /\ last_op' = Op("manual_close", "trade", loc["fg"].trade)
       ELSE /\ last_op' = Op("manual_close", "none", NoTrade)
            /\ UNCHANGED bot
    /\ loc' = [loc EXCEPT !["fg"] = NoLocals]
    /\ Goto("fg", "idle")
    /\ UNCHANGED <<strategy, clock, cmds>>
    /\ UNCHANGED loops

\* the AttributeError leaves manual_close_position and ends the callback
FgRaised ==
    /\ pc["fg"] = "raised"
    /\ last_op' = Op("manual_close", "raised", NoTrade)
    /\ loc' = [loc EXCEPT !["fg"] = NoLocals]
    /\ Goto("fg", "idle")
    /\ UNCHANGED <<strategy, bot, clock, cmds>>
    /\ UNCHANGED loops

NextConc ==
    \/ \E p \in Prices : BgFetch(p)
    \/ BgCheckLiquidation
    \/ BgTrend
    \/ \E t \in Threads : CloseCheck(t)
    \/ \E t \in Threads : ClosePnl(t)
    \/ \E t \in Threads : CloseSettle(t)
    \/ \E t \in Threads : CloseRecord(t)
    \/ \E t \in Threads : CloseClear(t)
    \/ BgAfterClose
    \/ BgFinish
    \/ BgRaised
    \/ \E side \in Sides : ManualOpen(side)
    \/ FgManualClose
    \/ FgAfterClose
    \/ FgRaised

SpecConc == Init /\ [][NextConc]_vars

(***************************************************************************)
(* The trend detector on its own: an engine constructed with a lookback    *)
(* and a minimum trend strength is fed prices one by one and asked for the *)
(* trend of its window.                                                    *)
(***************************************************************************)
MaxWindow == 4

\* 96.00 .. 103.90; 101.00 is exactly 1% above 100.00
TrendPrices == {9600, 9750, 9880, 10000, 10050, 10100, 10120, 10150, 10250, 10390}

\* 0.05% (the default) and 1% (the top of the slider)
TrendStrengthRange == {5, 100}

InitTrend ==
    /\ \E lb \in LookbackChoices, mts \in TrendStrengthRange :
          strategy = [StrategyInit EXCEPT !.lookback_periods = lb,
                                          !.min_trend_strength = mts]
    /\ bot = BotInit
    /\ clock = 0
    /\ cmds = 0
    /\ last_op = Op("init", "none", NoTrade)
    /\ pc = [t \in Threads |-> "idle"]
    /\ loc = [t \in Threads |-> NoLocals]
    /\ loops = NoLoops

AddPrice(p) ==
    /\ Len(strategy.price_history) < MaxWindow
    /\ strategy' = add_price(strategy, clock + 1, p)
    /\ clock' = clock + 1
    /\ last_op' = Op("add_price", "none", NoTrade)
    /\ UNCHANGED <<bot, cmds, pc, loc>>
    /\ UNCHANGED loops

DetectTrend ==
    /\ last_op' = Op("detect_trend", detect_trend(strategy), NoTrade)
    /\ UNCHANGED <<strategy, bot, clock, cmds, pc, loc>>
    /\ UNCHANGED loops

NextTrend ==
    \/ \E p \in TrendPrices : AddPrice(p)
    \/ DetectTrend

SpecTrend == InitTrend /\ [][NextTrend]_vars

(***************************************************************************)
(* The atomic calls with a feed that can also quote 0.0: the quote's       *)
(* outAmount is an integer and get_sol_usdc_price returns                  *)
(* round(outAmount / 1000, 4), which is 0.0 for outAmount 0.               *)
(***************************************************************************)
FeedPrices == Prices \cup {0}

NextFeed ==
    \/ \E p \in FeedPrices : Tick(p)
    \/ \E side \in Sides : ManualOpen(side)
    \/ ManualClose
    \/ UpdateParams
    \/ Reset

SpecFeed == Init /\ [][NextFeed]_vars

(***************************************************************************)
(* The coordinator's life cycle: start and stop from the application       *)
(* thread, and the update threads that start has created.  A thread is at  *)
(* the head of its loop (testing is_running, after its sleep) or in the    *)
(* body (about to fetch a price); an iteration's fetch and processing is   *)
(* taken as one step.                                                      *)
(***************************************************************************)
MaxCoordCmds == 4
MaxCoordTicks == 2

Start ==
    /\ cmds < MaxCoordCmds
    /\ LET r == start(bot, loops)
       IN  /\ bot' = r.bot
           /\ loops' = r.loops
           /\ last_op' = Op("start", r.ret, NoTrade)
    /\ cmds' = cmds + 1
    /\ UNCHANGED <<strategy, clock, pc, loc>>

Stop ==
    /\ cmds < MaxCoordCmds
    /\ bot' = stop(bot)
    /\ last_op' = Op("stop", "none", NoTrade)
    /\ cmds' = cmds + 1
    /\ UNCHANGED <<strategy, clock, pc, loc, loops>>

\* `while self.is_running`: enter the body, or leave the loop and end
LoopHead ==
    /\ loops.head > 0
    /\ IF bot.is_running
       THEN /\ loops' = [loops EXCEPT !.head = @ - 1, !.body = @ + 1]
            /\ last_op' = Op("loop", "iterate", NoTrade)
       ELSE /\ loops' = [loops EXCEPT !.head = @ - 1]
            /\ last_op' = Op("loop", "exit", NoTrade)
    /\ UNCHANGED <<strategy, bot, clock, cmds, pc, loc>>

\* an iteration whose fetch returned price p, then the sleep
LoopTick(p) ==
    /\ loops.body > 0
    /\ clock < MaxCoordTicks
    /\ LET r == fetch_and_process_price(bot, strategy, p, clock + 1)
       IN  /\ strategy' = r.st
           /\ bot' = r.bot
           /\ last_op' = Op("tick", r.action, r.trade)
    /\ clock' = clock + 1
    /\ loops' = [loops EXCEPT !.body = @ - 1, !.head = @ + 1]
    /\ UNCHANGED <<cmds, pc, loc>>

\* a fetch that returned None counted as a failure of the iteration
LoopNoPriceCounted ==
    /\ loops.body > 0
    /\ bot' = [bot EXCEPT !.error_count = @ + 1]
    /\ last_op' = Op("tick", "no_price", NoTrade)
    /\ loops' = [loops EXCEPT !.body = @ - 1, !.head = @ + 1]
    /\ UNCHANGED <<strategy, clock, cmds, pc, loc>>

\* an iteration whose fetch returned None (lines 82-84), then the sleep
LoopNoPrice ==
    /\ loops.body > 0
    /\ last_op' = Op("tick", "no_price", NoTrade)
    /\ loops' = [loops EXCEPT !.body = @ - 1, !.head = @ + 1]
    /\ UNCHANGED <<strategy, bot, clock, cmds, pc, loc>>

\* an iteration whose fetch raised (get_sol_usdc_price lets a TypeError
\* through): the except branch, which ends the thread at max_errors
LoopRaise ==
    /\ loops.body > 0
    /\ LET r == loop_except(bot)
       IN  /\ bot' = r.bot
           /\ loops' = IF r.break
                       THEN [loops EXCEPT !.body = @ - 1]
                       ELSE [loops EXCEPT !.body = @ - 1, !.head = @ + 1]
    /\ last_op' = Op("tick", "raised", NoTrade)
    /\ UNCHANGED <<strategy, clock, cmds, pc, loc>>

NextCoord ==
    \/ Start
    \/ Stop
    \/ LoopHead
    \/ \E p \in Prices : LoopTick(p)
    \/ LoopNoPrice
    \/ LoopRaise

SpecCoord == Init /\ [][NextCoord]_vars

(***************************************************************************)
(* The activity log at its cap.  The application's Open Long and Close     *)
(* Position buttons are pressed alternately in one uninterrupted run       *)
(* (every close logs one manual_close entry), with price samples before    *)
(* and after the run.                                                      *)
(***************************************************************************)
MaxBurst == 202

\* commands are accepted until a tick interrupts a run that has begun
InBurst == cmds = 0 \/ last_op.op # "tick"

BurstOpen ==
    /\ pc["fg"] = "idle"
    /\ cmds < MaxBurst
    /\ InBurst
    /\ bot.last_price # NoPrice
    /\ strategy.current_position = NoPosition
    /\ LET r == open_position(strategy, "long", bot.last_price, clock)
       IN  /\ strategy' = r.st
           /\ last_op' = Op("open_position", IF r.ret THEN "true" ELSE "false", NoTrade)
    /\ cmds' = cmds + 1
    /\ UNCHANGED <<bot, clock, pc, loc, loops>>

BurstClose ==
    /\ pc["fg"] = "idle"
    /\ cmds < MaxBurst
    /\ InBurst
    /\ strategy.current_position # NoPosition
    /\ LET r == manual_close_position(bot, strategy, clock)
       IN  /\ strategy' = r.st
           /\ bot' = r.bot
           /\ last_op' = Op("manual_close", IF r.trade = NoTrade THEN "none" ELSE "trade",
                            r.trade)
    /\ cmds' = cmds + 1
    /\ UNCHANGED <<clock, pc, loc, loops>>

NextLog ==
    \/ \E p \in Prices : Tick(p)
    \/ BurstOpen
    \/ BurstClose

SpecLog == Init /\ [][NextLog]_vars

(***************************************************************************)
(* The engine used directly: open_position and close_position called with  *)
(* any side and price, so that the ledger holds winning and losing Trades. *)
(***************************************************************************)
MaxCalls == 6

EngineOpen(side, p) ==
    /\ clock < MaxCalls
    /\ LET r == open_position(strategy, side, p, clock + 1)
       IN  /\ strategy' = r.st
           /\ last_op' = Op("open_position", IF r.ret THEN "true" ELSE "false", NoTrade)
    /\ clock' = clock + 1
    /\ UNCHANGED <<bot, cmds, pc, loc, loops>>

EngineClose(p) ==
    /\ clock < MaxCalls
    /\ LET r == close_position(strategy, p, clock + 1, "manual")
       IN  /\ strategy' = r.st
           /\ last_op' = Op("close_position",
                            IF r.trade = NoTrade THEN "none" ELSE "trade", r.trade)
    /\ clock' = clock + 1
    /\ UNCHANGED <<bot, cmds, pc, loc, loops>>

NextEngine ==
    \/ \E side \in Sides, p \in Prices : EngineOpen(side, p)
    \/ \E p \in Prices : EngineClose(p)

SpecEngine == Init /\ [][NextEngine]_vars

(***************************************************************************)
(* The default configuration fed by price ticks alone, at the prices SOL   *)
(* trades at: four rising quotes open a long at 103.90, whose liquidation  *)
(* level is 103.90 - 103.90 / 5 * 0.8 = 87.276; 87.27 is the first quote   *)
(* at or below it.                                                         *)
(***************************************************************************)
MaxFetch == 6

DefaultPrices == {8727, 10000, 10120, 10250, 10390}

\* app.py 288-289: "Fetch Price Now" calls bot._fetch_and_process_price()
FetchPriceNow(p) ==
    /\ clock < MaxFetch
    /\ LET r == fetch_and_process_price(bot, strategy, p, clock + 1)
       IN  /\ strategy' = r.st
           /\ bot' = r.bot
           /\ last_op' = Op("tick", r.action, r.trade)
    /\ clock' = clock + 1
    /\ UNCHANGED <<cmds, pc, loc, loops>>

NextDefault == \E p \in DefaultPrices : FetchPriceNow(p)

SpecDefault == Init /\ [][NextDefault]_vars

(***************************************************************************)
(* The price window at its cap.  An engine built with a small lookback or  *)
(* with the largest one whose window fits the trimmed history is fed more  *)
(* than PRICE_HISTORY_CAP samples.  The feed is flat, then rises by 0.11   *)
(* USDC a sample; around the cap it can also quote a fall of 0.20 USDC a   *)
(* sample or a crash to 50.00.  The rise starts so that the first run of   *)
(* PRICE_HISTORY_KEEP rising samples ends with the sample that trims.      *)
(***************************************************************************)
MaxPastCap == 3
FreeBeforeCap == 2

\* 499 + 1 samples are exactly the trimmed window
WindowLookbacks == LookbackChoices \cup {PRICE_HISTORY_KEEP - 1}

RampStart == PRICE_HISTORY_KEEP + 2
FreeFrom == PRICE_HISTORY_CAP - FreeBeforeCap + 1

Ramp(t) == IF t <= RampStart THEN 10000 ELSE 10000 + 11 * (t - RampStart)
Fall(t) == Ramp(FreeFrom - 1) - 20 * (t - FreeFrom + 1)
Crash == 5000

\* the prices the feed can quote for sample number t
Quotes(t) == IF t < FreeFrom THEN {Ramp(t)} ELSE {Ramp(t), Fall(t), Crash}

InitWindow ==
    /\ \E lb \in WindowLookbacks :
          strategy = [StrategyInit EXCEPT !.lookback_periods = lb]
    /\ bot = BotInit
    /\ clock = 0
    /\ cmds = 0
    /\ last_op = Op("init", "none", NoTrade)
    /\ pc = [t \in Threads |-> "idle"]
    /\ loc = [t \in Threads |-> NoLocals]
    /\ loops = NoLoops

\* one iteration of the update loop with the price quoted for its sample
FeedTick(p) ==
    /\ clock < PRICE_HISTORY_CAP + MaxPastCap
    /\ LET r == fetch_and_process_price(bot, strategy, p, clock + 1)
       IN  /\ strategy' = r.st
           /\ bot' = r.bot
           /\ last_op' = Op("tick", r.action, r.trade)
    /\ clock' = clock + 1
    /\ UNCHANGED <<cmds, pc, loc, loops>>

NextWindow == \E p \in Quotes(clock + 1) : FeedTick(p)

SpecWindow == InitWindow /\ [][NextWindow]_vars

(***************************************************************************)
(* The trend detector under any configuration the engine accepts: neither  *)
(* the constructor nor update_strategy_params checks lookback_periods or   *)
(* min_trend_strength, so a lookback of 0 and a strength of 0 or below are *)
(* configurations like any other.  The feed quotes 98.80, 100.00, 101.20   *)
(* or 0.00.                                                                *)
(***************************************************************************)
MaxConfigCmds == 2

ConfigLookbacks == {0, 1, 2}
ConfigStrengths == {-5, 0, 5}
ConfigPrices == {0, 9880, 10000, 10120}

InitConfig ==
    /\ \E lb \in ConfigLookbacks, mts \in ConfigStrengths :
          strategy = [StrategyInit EXCEPT !.lookback_periods = lb,
                                          !.min_trend_strength = mts]
    /\ bot = BotInit
    /\ clock = 0
    /\ cmds = 0
    /\ last_op = Op("init", "none", NoTrade)
    /\ pc = [t \in Threads |-> "idle"]
    /\ loc = [t \in Threads |-> NoLocals]
    /\ loops = NoLoops

\* update_strategy_params(lookback_periods = lb, min_trend_strength = mts):
\* the parameters left at None keep their value
SetTrendParams ==
    /\ cmds < MaxConfigCmds
    /\ \E lb \in ConfigLookbacks, mts \in ConfigStrengths :
          strategy' = update_strategy_params(strategy, strategy.leverage,
                                             strategy.position_size, lb, mts)
    /\ last_op' = Op("update_params", "none", NoTrade)
    /\ cmds' = cmds + 1
    /\ UNCHANGED <<bot, clock, pc, loc, loops>>

NextConfig ==
    \/ \E p \in ConfigPrices : AddPrice(p)
    \/ DetectTrend
    \/ SetTrendParams

SpecConfig == InitConfig /\ [][NextConfig]_vars

(***************************************************************************)
(* Properties.                                                             *)
(***************************************************************************)
RECURSIVE SumPnl(_)
SumPnl(trades) ==
    IF trades = <<>> THEN 0
    ELSE trades[Len(trades)].pnl + SumPnl(SubSeq(trades, 1, Len(trades) - 1))

\* what a trade's position earned before fees, from the trade's own fields
GrossPnl(t) ==
    IF t.side = "long"
    THEN (t.exit_price - t.entry_price) * t.size * t.leverage * 10
    ELSE (t.entry_price - t.exit_price) * t.size * t.leverage * 10

\* position_size * leverage * trading_fee_rate under configuration st
EntryFee(st) == st.position_size * st.leverage * st.trading_fee

\* the sample a tick has just fed to the engine
FedPrice(st) == st.price_history[Len(st.price_history)].price

\* the liquidation condition of position pos at price p
LiquidationCondition(pos, p) ==
    \/ pos.side = "long" /\ p * pos.liquidation_price.den <= pos.liquidation_price.num
    \/ pos.side = "short" /\ p * pos.liquidation_price.den >= pos.liquidation_price.num

HasPosition == strategy.current_position # NoPosition
PositionOpened == ~HasPosition /\ strategy'.current_position # NoPosition
PositionEnded == HasPosition /\ strategy'.current_position = NoPosition
TradeOf(pos, t) ==
    /\ t.side = pos.side
    /\ t.entry_price = pos.entry_price
    /\ t.size = pos.size
    /\ t.leverage = pos.leverage
    /\ t.entry_time = pos.entry_time

\* C1: after every step, balance = initial balance - total_fees_paid + the
\* sum of pnl over the trades in the ledger
C1_BalanceEquation ==
    strategy.balance =
        InitialBalance - strategy.total_fees_paid + SumPnl(strategy.completed_trades)

C1_Witness ==
    /\ Len(strategy.completed_trades) >= 1
    /\ HasPosition
    /\ strategy.total_fees_paid > 0
    /\ SumPnl(strategy.completed_trades) # 0

\* C2: an open position is never overwritten; a position appears only through
\* a successful open from the no-position state; a position that ends has
\* become exactly one Trade, and the ledger grows in no other way
C2_SinglePosition ==
    [][/\ HasPosition =>
            strategy'.current_position \in {strategy.current_position, NoPosition}
       /\ PositionOpened =>
            \/ last_op'.op = "open_position" /\ last_op'.ret = "true"
            \/ last_op'.op = "tick" /\ last_op'.ret \in {"opened_long", "opened_short"}
       /\ PositionEnded =>
            /\ TradeOf(strategy.current_position, last_op'.trade)
            /\ last_op'.op # "reset" =>
                 strategy'.completed_trades =
                    Append(strategy.completed_trades, last_op'.trade)
       /\ Len(strategy'.completed_trades) > Len(strategy.completed_trades) =>
            PositionEnded
      ]_vars

C2_Witness ==
    /\ HasPosition
    /\ last_op.op = "open_position"
    /\ last_op.ret = "false"
    /\ strategy.current_position.entry_time < clock

SamePosition(t1, t2) ==
    /\ t1.side = t2.side
    /\ t1.entry_price = t2.entry_price
    /\ t1.entry_time = t2.entry_time

\* C3: a manual close and a tick's close of the same position never both
\* append a Trade, and neither raises
C3_SerialisedClose ==
    /\ \A t \in Threads : pc[t] # "raised"
    /\ ~ /\ loc["bg"].trade # NoTrade
         /\ loc["fg"].trade # NoTrade
         /\ SamePosition(loc["bg"].trade, loc["fg"].trade)

\* C7: close_position with no position open returns none and leaves the
\* engine and the coordinator as they were, without raising
C7_CloseWithoutPosition ==
    [][\A t \in Threads :
          (pc[t] = "close_check" /\ pc'[t] # "close_check"
                /\ strategy.current_position = NoPosition) =>
            /\ pc'[t] = "close_return"
            /\ loc'[t].trade = NoTrade
            /\ strategy' = strategy
            /\ bot' = bot
      ]_vars

C7_Witness ==
    /\ pc["fg"] = "close_return"
    /\ loc["fg"].trade = NoTrade
    /\ strategy.current_position = NoPosition
    /\ Len(strategy.completed_trades) = 1

\* C4 as stated: the pnl of a Trade is the gross PnL less the entry fee and
\* less the exit fee
C4_NetOfBothFees ==
    last_op.trade # NoTrade =>
        last_op.trade.pnl =
            GrossPnl(last_op.trade)
            - last_op.trade.size * last_op.trade.leverage * strategy.trading_fee
            - last_op.trade.size * strategy.leverage * strategy.trading_fee

\* C4 amended: the pnl of a Trade is the gross PnL less the exit fee alone,
\* the exit fee being position.size * the engine's leverage at close * rate
C4_NetOfExitFee ==
    last_op.trade # NoTrade =>
        last_op.trade.pnl =
            GrossPnl(last_op.trade)
            - last_op.trade.size * strategy.leverage * strategy.trading_fee

C4_Witness ==
    /\ last_op.trade # NoTrade
    /\ last_op.trade.leverage # strategy.leverage
    /\ GrossPnl(last_op.trade) # 0

\* C5: open_position with a position open returns false and changes nothing
C5_OpenWhileOpen ==
    [][(last_op'.op = "open_position" /\ HasPosition) =>
            /\ last_op'.ret = "false"
            /\ strategy' = strategy
            /\ bot' = bot
      ]_vars

C5_Witness ==
    /\ last_op.op = "open_position"
    /\ last_op.ret = "false"
    /\ HasPosition
    /\ strategy.balance >= EntryFee(strategy)

\* C6: open_position with no position and balance < fee returns false and
\* changes nothing; a successful open leaves balance >= 0; a tick whose open
\* attempt fails for the balance yields no action
C6_InsufficientBalance ==
    [][/\ (last_op'.op = "open_position" /\ ~HasPosition
                /\ strategy.balance < EntryFee(strategy)) =>
            /\ last_op'.ret = "false"
            /\ strategy' = strategy
       /\ PositionOpened => strategy'.balance >= 0
       /\ (last_op'.op = "tick" /\ ~HasPosition
                /\ strategy.balance < EntryFee(strategy)) =>
            /\ last_op'.ret = "none"
            /\ strategy'.current_position = NoPosition
            /\ strategy'.balance = strategy.balance
            /\ strategy'.total_fees_paid = strategy.total_fees_paid
      ]_vars

C6_Witness ==
    /\ last_op.op = "tick"
    /\ last_op.ret = "none"
    /\ ~HasPosition
    /\ detect_trend(strategy) # "none"
    /\ strategy.balance < EntryFee(strategy)

\* C8: a tick's liquidation check closes the position, with a Trade of
\* reason liquidation at the fed price, exactly when the liquidation
\* condition holds (equality included); otherwise it closes nothing
C8_LiquidationExactly ==
    [][last_op'.op = "tick" =>
        LET p == FedPrice(strategy')
            due == HasPosition /\ LiquidationCondition(strategy.current_position, p)
        IN  /\ (last_op'.ret = "liquidated") <=> due
            /\ due =>
                /\ last_op'.trade.reason = "liquidation"
                /\ last_op'.trade.exit_price = p
                /\ TradeOf(strategy.current_position, last_op'.trade)
                /\ strategy'.completed_trades =
                      Append(strategy.completed_trades, last_op'.trade)
            /\ ~due => last_op'.trade.reason # "liquidation"
            /\ (~due /\ last_op'.ret = "none") =>
                /\ strategy'.current_position = strategy.current_position
                /\ strategy'.balance = strategy.balance
                /\ strategy'.completed_trades = strategy.completed_trades
      ]_vars

\* a long liquidated at a price equal to its liquidation price
C8_Witness ==
    /\ last_op.op = "tick"
    /\ last_op.ret = "liquidated"
    /\ last_op.trade.side = "long"
    /\ last_op.trade.exit_price * 5 * last_op.trade.leverage =
          last_op.trade.entry_price * (5 * last_op.trade.leverage - 8)

\* C9: a tick whose price meets the liquidation condition returns
\* liquidated, its Trade has reason liquidation, and no position is opened in
\* that tick, whatever the trend
C9_LiquidationFirst ==
    [][(last_op'.op = "tick" /\ HasPosition
            /\ LiquidationCondition(strategy.current_position, FedPrice(strategy'))) =>
            /\ last_op'.ret = "liquidated"
            /\ last_op'.trade.reason = "liquidation"
            /\ strategy'.current_position = NoPosition
            /\ Len(strategy'.completed_trades) = Len(strategy.completed_trades) + 1
            /\ bot'.trade_log[Len(bot'.trade_log)].action = "liquidated"
            /\ Len(bot'.trade_log) = Len(bot.trade_log) + 1
      ]_vars

\* liquidated while the trend opposes the position and the fee is affordable
C9_Witness ==
    /\ last_op.op = "tick"
    /\ last_op.ret = "liquidated"
    /\ \/ last_op.trade.side = "long" /\ detect_trend(strategy) = "bearish"
       \/ last_op.trade.side = "short" /\ detect_trend(strategy) = "bullish"
    /\ strategy.balance >= EntryFee(strategy)

\* C10: a tick that starts with no position opens a long on a bullish trend
\* and a short on a bearish one when the fee is affordable, at the tick
\* price; otherwise it returns no action and leaves position, balance, fees
\* and ledger as they were
C10_EntryOnTrend ==
    [][(last_op'.op = "tick" /\ ~HasPosition) =>
        LET trend == detect_trend(strategy')
            affordable == strategy.balance >= EntryFee(strategy)
            p == FedPrice(strategy')
        IN  /\ (trend = "bullish" /\ affordable) =>
                /\ last_op'.ret = "opened_long"
                /\ strategy'.current_position.side = "long"
                /\ strategy'.current_position.entry_price = p
            /\ (trend = "bearish" /\ affordable) =>
                /\ last_op'.ret = "opened_short"
                /\ strategy'.current_position.side = "short"
                /\ strategy'.current_position.entry_price = p
            /\ (trend = "none" \/ ~affordable) =>
                /\ last_op'.ret = "none"
                /\ strategy'.current_position = NoPosition
                /\ strategy'.balance = strategy.balance
                /\ strategy'.total_fees_paid = strategy.total_fees_paid
                /\ strategy'.completed_trades = strategy.completed_trades
      ]_vars

C10_Witness ==
    /\ last_op.op = "tick"
    /\ last_op.ret = "opened_short"
    /\ strategy.current_position.side = "short"
    /\ strategy.current_position.entry_price = FedPrice(strategy)
    /\ Len(strategy.completed_trades) >= 1

\* C11: a tick that starts with a position open and does not liquidate it
\* closes the position with reason trend_reversal and returns
\* closed_position exactly when the trend opposes the side (long and bearish,
\* short and bullish); on a same-direction or absent trend it returns no
\* action and leaves position, balance, fees, ledger and activity log alone
C11_ExitOnReversal ==
    [][(last_op'.op = "tick" /\ HasPosition
            /\ ~LiquidationCondition(strategy.current_position, FedPrice(strategy'))) =>
        LET trend == detect_trend(strategy')
            pos == strategy.current_position
            opposed == \/ pos.side = "long" /\ trend = "bearish"
                       \/ pos.side = "short" /\ trend = "bullish"
        IN  /\ (last_op'.ret = "closed_position") <=> opposed
            /\ opposed =>
                /\ last_op'.trade.reason = "trend_reversal"
                /\ last_op'.trade.exit_price = FedPrice(strategy')
                /\ TradeOf(pos, last_op'.trade)
                /\ strategy'.current_position = NoPosition
                /\ strategy'.completed_trades =
                      Append(strategy.completed_trades, last_op'.trade)
            /\ ~opposed =>
                /\ last_op'.ret = "none"
                /\ last_op'.trade = NoTrade
                /\ strategy'.current_position = pos
                /\ strategy'.balance = strategy.balance
                /\ strategy'.total_fees_paid = strategy.total_fees_paid
                /\ strategy'.completed_trades = strategy.completed_trades
                /\ bot'.trade_log = bot.trade_log
      ]_vars

\* a short closed by a bullish trend that did not liquidate it
C11_Witness ==
    /\ last_op.op = "tick"
    /\ last_op.ret = "closed_position"
    /\ last_op.trade.reason = "trend_reversal"
    /\ last_op.trade.side = "short"
    /\ detect_trend(strategy) = "bullish"
    /\ ~HasPosition

\* C12: one tick changes the position at most once: it opens a position, or
\* closes one, or does neither; a tick that closes a position leaves none
\* open, a tick that opens one appends no Trade, and the ledger grows by at
\* most one Trade per tick
C12_OneChangePerTick ==
    [][last_op'.op = "tick" =>
        /\ HasPosition =>
              strategy'.current_position \in {strategy.current_position, NoPosition}
        /\ ~HasPosition =>
              strategy'.completed_trades = strategy.completed_trades
        /\ \/ strategy'.completed_trades = strategy.completed_trades
           \/ /\ PositionEnded
              /\ strategy'.completed_trades =
                    Append(strategy.completed_trades, last_op'.trade)
        /\ last_op'.ret \in {"liquidated", "closed_position"} <=> PositionEnded
        /\ last_op'.ret \in {"opened_long", "opened_short"} <=> PositionOpened
      ]_vars

\* a long closed by a bearish trend, the fee of a new short affordable, and
\* no short opened in that tick
C12_Witness ==
    /\ last_op.op = "tick"
    /\ last_op.ret = "closed_position"
    /\ last_op.trade.side = "long"
    /\ detect_trend(strategy) = "bearish"
    /\ strategy.balance >= EntryFee(strategy)
    /\ ~HasPosition

\* the prices of a window, oldest first
WindowPrices(st) == [i \in 1..Len(st.price_history) |-> st.price_history[i].price]

\* C13: over the most recent lookback_periods + 1 prices, detect_trend
\* returns bullish exactly when every consecutive pair satisfies
\* price[i] > price[i-1] * (1 + min_trend_strength), bearish exactly when
\* every pair satisfies price[i] < price[i-1] * (1 - min_trend_strength),
\* and none otherwise.  With lookback 3: 100, 101.2, 102.5, 103.9 is
\* bullish; 100, 98.8, 97.5, 96.0 is bearish; 100, 101, 100.5, 101.5 is none
C13_DetectTrend ==
    last_op.op = "detect_trend" =>
        LET h == strategy.price_history
            n == Len(h)
            k == strategy.lookback_periods
            m == strategy.min_trend_strength
            rising == /\ n >= k + 1
                      /\ \A i \in (n - k + 1)..n :
                            h[i].price * 10000 > h[i - 1].price * (10000 + m)
            falling == /\ n >= k + 1
                       /\ \A i \in (n - k + 1)..n :
                            h[i].price * 10000 < h[i - 1].price * (10000 - m)
        IN  /\ (last_op.ret = "bullish") <=> rising
            /\ (last_op.ret = "bearish") <=> falling
            /\ (last_op.ret = "none") <=> (~rising /\ ~falling)
            /\ k = 3 =>
                /\ WindowPrices(strategy) = <<10000, 10120, 10250, 10390>> =>
                      last_op.ret = "bullish"
                /\ WindowPrices(strategy) = <<10000, 9880, 9750, 9600>> =>
                      last_op.ret = "bearish"
                /\ WindowPrices(strategy) = <<10000, 10100, 10050, 10150>> =>
                      last_op.ret = "none"

\* the bearish example under the default configuration
C13_Witness ==
    /\ last_op.op = "detect_trend"
    /\ last_op.ret = "bearish"
    /\ strategy.lookback_periods = 3
    /\ strategy.min_trend_strength = 5
    /\ WindowPrices(strategy) = <<10000, 9880, 9750, 9600>>

\* C14: detect_trend returns none whenever the window holds fewer than
\* lookback_periods + 1 samples, so a tick that leaves the window with at
\* most lookback_periods samples (each of the first lookback_periods ticks
\* from an empty window) opens no position
C14_WarmUp ==
    [][/\ Len(strategy'.price_history) < strategy'.lookback_periods + 1 =>
            detect_trend(strategy') = "none"
       /\ (last_op'.op = "tick"
                /\ Len(strategy'.price_history) <= strategy.lookback_periods) =>
            /\ last_op'.ret \notin {"opened_long", "opened_short"}
            /\ ~HasPosition => strategy'.current_position = NoPosition
      ]_vars

\* the tick that brings the window to lookback_periods rising samples, the
\* fee affordable, and no position opened
C14_Witness ==
    /\ last_op.op = "tick"
    /\ last_op.ret = "none"
    /\ Len(strategy.price_history) = strategy.lookback_periods
    /\ higher_highs(strategy)
    /\ ~HasPosition
    /\ strategy.balance >= EntryFee(strategy)

\* the fraction q equals the amount n / d
FractionIs(q, n, d) == q.num * d = n * q.den

\* C15: a position opened at price p gets liquidation_price
\* p - p / leverage * liquidation_threshold when long and
\* p + p / leverage * liquidation_threshold when short, with the leverage
\* and threshold configured at the time of the open; at leverage 5 and
\* threshold 0.8 a long at 100 gets 84.0 and a short at 100 gets 116.0
C15_LiquidationPrice ==
    [][/\ PositionOpened =>
            LET pos == strategy'.current_position
                p == pos.entry_price
                lev == strategy.leverage
                thr == strategy.liquidation_threshold
            IN  /\ pos.leverage = lev
                /\ pos.side = "long" =>
                      FractionIs(pos.liquidation_price, p * (5 * lev - thr), 5 * lev)
                /\ pos.side = "short" =>
                      FractionIs(pos.liquidation_price, p * (5 * lev + thr), 5 * lev)
       /\ FractionIs(open_position(StrategyInit, "long", 10000, 1)
                        .st.current_position.liquidation_price, 8400, 1)
       /\ FractionIs(open_position(StrategyInit, "short", 10000, 1)
                        .st.current_position.liquidation_price, 11600, 1)
      ]_vars

\* a short opened after the leverage was raised to 10x: 5.00 -> 5.40
C15_Witness ==
    /\ HasPosition
    /\ strategy.current_position.side = "short"
    /\ strategy.current_position.leverage = 20
    /\ strategy.current_position.entry_price = 500
    /\ FractionIs(strategy.current_position.liquidation_price, 540, 1)
    /\ last_op.ret \in {"true", "opened_short"}

\* C16: while a position stays open, no tick and no parameter update changes
\* its liquidation_price, entry_price, size, leverage or side; a parameter
\* update leaves the position as it is; and a tick liquidates by the level
\* fixed at the open, entry * (1 -+ threshold / the position's leverage),
\* whatever the engine's leverage has become
C16_PositionFixed ==
    [][/\ (HasPosition /\ strategy'.current_position # NoPosition) =>
            strategy'.current_position = strategy.current_position
       /\ last_op'.op = "update_params" =>
            strategy'.current_position = strategy.current_position
       /\ (last_op'.op = "tick" /\ HasPosition) =>
            LET pos == strategy.current_position
                p == FedPrice(strategy')
                d == 5 * pos.leverage
                thr == strategy.liquidation_threshold
            IN  (last_op'.ret = "liquidated") <=>
                    \/ pos.side = "long" /\ p * d <= pos.entry_price * (d - thr)
                    \/ pos.side = "short" /\ p * d >= pos.entry_price * (d + thr)
      ]_vars

\* a long opened at 5x survives a tick at or below 92% of its entry price
\* after the leverage was set to 10x; a 10x long would be liquidated there
C16_Witness ==
    /\ last_op.op = "tick"
    /\ HasPosition
    /\ strategy.current_position.side = "long"
    /\ strategy.current_position.leverage = 10
    /\ strategy.leverage = 20
    /\ FedPrice(strategy) * 100 <= strategy.current_position.entry_price * 92

\* C17: the exit fee charged when a position is closed is
\* position.size * position.leverage * trading_fee_rate, the entry fee that
\* was charged at its open, also when the leverage parameter was updated
\* between open and close
C17_ExitFeeIsEntryFee ==
    [][(PositionEnded /\ last_op'.op # "reset") =>
            strategy'.total_fees_paid - strategy.total_fees_paid =
                strategy.current_position.size * strategy.current_position.leverage
                    * strategy.trading_fee
      ]_vars

\* C18: after reset, also when a position was open at reset time: that
\* position was closed first into exactly one Trade (reason manual), no
\* position is open, the ledger is empty, the balance is the initial 1000,
\* the cumulative fees are 0 and the activity log is empty
C18_ResetRestores ==
    [][last_op'.op = "reset" =>
        /\ HasPosition =>
            /\ last_op'.trade # NoTrade
            /\ last_op'.trade.reason = "manual"
            /\ TradeOf(strategy.current_position, last_op'.trade)
        /\ ~HasPosition => last_op'.trade = NoTrade
        /\ strategy'.current_position = NoPosition
        /\ strategy'.completed_trades = <<>>
        /\ strategy'.balance = InitialBalance
        /\ strategy'.total_fees_paid = 0
        /\ bot'.trade_log = <<>>
      ]_vars

\* C19: manual_close_position with a position open and a price sample
\* recorded closes the position at the last known price, returns a Trade of
\* reason manual and appends one manual_close entry to the activity log;
\* with no position open, or no price ever recorded, it returns none and
\* changes nothing
C19_ManualClose ==
    [][last_op'.op = "manual_close" =>
        IF HasPosition /\ bot.last_price # NoPrice
        THEN /\ last_op'.ret = "trade"
             /\ last_op'.trade.reason = "manual"
             /\ last_op'.trade.exit_price = bot.last_price
             /\ TradeOf(strategy.current_position, last_op'.trade)
             /\ strategy'.current_position = NoPosition
             /\ strategy'.completed_trades =
                    Append(strategy.completed_trades, last_op'.trade)
             /\ Len(bot'.trade_log) = Len(bot.trade_log) + 1
             /\ bot'.trade_log[Len(bot'.trade_log)].action = "manual_close"
        ELSE /\ last_op'.ret = "none"
             /\ strategy' = strategy
             /\ bot' = bot
      ]_vars

\* C20: start on a running coordinator changes nothing (still running, the
\* same update threads, the error counter untouched) and start on a stopped
\* one creates exactly one update thread; stop leaves the coordinator not
\* running and creates no thread, and stop on a stopped coordinator changes
\* nothing
C20_StartStopIdempotent ==
    [][cmds' # cmds =>
        /\ (last_op'.op = "start" /\ bot.is_running) =>
            /\ bot' = bot
            /\ loops' = loops
            /\ strategy' = strategy
        /\ (last_op'.op = "start" /\ ~bot.is_running) =>
            /\ bot'.is_running
            /\ LiveLoops(loops') = LiveLoops(loops) + 1
        /\ last_op'.op = "stop" =>
            /\ ~bot'.is_running
            /\ loops' = loops
            /\ strategy' = strategy
            /\ ~bot.is_running => bot' = bot
      ]_vars

\* a second start while the one update thread is alive and has counted a
\* failure
C20_Witness ==
    /\ last_op.op = "start"
    /\ last_op.ret = "noop"
    /\ bot.is_running
    /\ bot.error_count > 0
    /\ LiveLoops(loops) = 1

\* the update-loop steps of one iteration
IterationRaised == last_op'.op = "tick" /\ last_op'.ret = "raised"
IterationSkipped == last_op'.op = "tick" /\ last_op'.ret = "no_price"
IterationSucceeded == last_op'.op = "tick" /\ last_op'.ret \notin {"raised", "no_price"}

\* C21: an iteration that raises adds one to the consecutive-error counter,
\* a successful iteration and a start set it to 0; when the counter reaches
\* the maximum 10 the coordinator becomes not running and no iteration runs
\* until the next start; the counter never exceeds 10
C21_FailureEscalation ==
    [][/\ IterationRaised =>
            /\ bot'.error_count = bot.error_count + 1
            /\ bot'.error_count >= MAX_ERRORS => ~bot'.is_running
       /\ IterationSucceeded => bot'.error_count = 0
       /\ (last_op'.op = "start" /\ last_op'.ret = "started") => bot'.error_count = 0
       /\ (bot.error_count >= MAX_ERRORS /\ ~bot.is_running) => last_op'.op # "tick"
       /\ bot'.error_count <= MAX_ERRORS
      ]_vars

\* C29: after any sequence of start and stop calls at most one update loop
\* is live: a running coordinator has one update thread, and never are two
\* threads inside an iteration
C29_SingleLoop ==
    /\ bot.is_running => LiveLoops(loops) <= 1
    /\ loops.body <= 1

\* C28: once stop has returned, and until the next start, the update loop
\* feeds no price sample to the engine: a sample is processed only while
\* the coordinator is running
C28_StopHalts ==
    [][(IterationSucceeded \/ strategy'.price_history # strategy.price_history) =>
            bot.is_running
      ]_vars

\* C22: an iteration whose fetch returned none changes nothing: the engine
\* (window, position, balance, fees, ledger) and the coordinator (price
\* history, activity log, last price and timestamp, error counter, running
\* flag) are as they were
C22_SoftFailure ==
    [][IterationSkipped =>
            /\ strategy' = strategy
            /\ bot' = bot
      ]_vars

\* a skipped iteration on a running coordinator that holds a price and has
\* counted a failure
C22_Witness ==
    /\ last_op.op = "tick"
    /\ last_op.ret = "no_price"
    /\ bot.is_running
    /\ bot.error_count > 0
    /\ bot.last_price # NoPrice
    /\ Len(strategy.price_history) > 0

\* C23: a tick that returns no action leaves balance, cumulative fees and
\* ledger exactly as they were, whatever the price and the unrealized PnL;
\* the balance changes only in a step that opens a position, ends one, or
\* resets
C23_UnrealizedPnl ==
    [][/\ (last_op'.op = "tick" /\ last_op'.ret = "none") =>
            /\ strategy'.balance = strategy.balance
            /\ strategy'.total_fees_paid = strategy.total_fees_paid
            /\ strategy'.completed_trades = strategy.completed_trades
       /\ strategy'.balance # strategy.balance =>
            \/ PositionOpened
            \/ PositionEnded
            \/ last_op'.op = "reset"
      ]_vars

\* a position held through a tick at a price that moves its unrealized PnL
C23_Witness ==
    /\ last_op.op = "tick"
    /\ last_op.ret = "none"
    /\ HasPosition
    /\ get_current_pnl(strategy, FedPrice(strategy)) # 0
    /\ strategy.balance = InitialBalance - strategy.total_fees_paid

\* s is an initial segment of t
IsPrefix(s, t) == Len(s) <= Len(t) /\ SubSeq(t, 1, Len(s)) = s

\* C24: the ledger is append-only between resets: every step other than a
\* reset keeps the ledger as a prefix of the new ledger, so no Trade is
\* modified or removed; every Trade's reason is trend_reversal, liquidation
\* or manual; only reset removes entries
C24_AppendOnly ==
    [][/\ last_op'.op # "reset" =>
            IsPrefix(strategy.completed_trades, strategy'.completed_trades)
       /\ ~IsPrefix(strategy.completed_trades, strategy'.completed_trades) =>
            /\ last_op'.op = "reset"
            /\ strategy'.completed_trades = <<>>
       /\ \A i \in 1..Len(strategy'.completed_trades) :
            strategy'.completed_trades[i].reason \in
                {"trend_reversal", "liquidation", "manual"}
      ]_vars

\* a second Trade appended behind the first, which is kept
C24_Witness ==
    /\ Len(strategy.completed_trades) = 2
    /\ last_op.trade = strategy.completed_trades[2]
    /\ strategy.completed_trades[1].exit_time < strategy.completed_trades[2].entry_time

\* C25: a successful iteration passes its sample to process_price_update
\* and, exactly when the action returned is not none, appends one entry for
\* that action as the newest entry of the activity log, with the position's
\* side, size and leverage exactly when a position is open afterwards; with
\* no action the log is unchanged.  Afterwards the last-known price is the
\* sample.  The log never holds more than 100 entries (the append that would
\* make 101 keeps the newest 50), and the engine's step is the one
\* process_price_update computes from the engine alone, log unread
C25_ActivityLog ==
    [][/\ last_op'.op = "tick" =>
            LET p == FedPrice(strategy')
                old == bot.trade_log
                new == bot'.trade_log
                e == new[Len(new)]
                r == process_price_update(strategy, clock', p)
            IN  /\ strategy' = r.st
                /\ last_op'.ret = r.action
                /\ bot'.last_price = p
                /\ last_op'.ret = "none" => new = old
                /\ last_op'.ret # "none" =>
                    /\ \/ Len(old) < TRADE_LOG_CAP /\ new = Append(old, e)
                       \/ /\ Len(old) = TRADE_LOG_CAP
                          /\ new = SubSeq(Append(old, e),
                                          TRADE_LOG_CAP - TRADE_LOG_KEEP + 2,
                                          TRADE_LOG_CAP + 1)
                    /\ e.action = last_op'.ret
                    /\ e.price = p
                    /\ e.timestamp = clock'
                    /\ (e.position_side # "none") <=>
                            (strategy'.current_position # NoPosition)
                    /\ strategy'.current_position # NoPosition =>
                        /\ e.position_side = strategy'.current_position.side
                        /\ e.position_size = strategy'.current_position.size
                        /\ e.leverage = strategy'.current_position.leverage
       /\ Len(bot'.trade_log) <= TRADE_LOG_CAP
      ]_vars

\* the tick whose entry was the 101st: the log holds the newest 50
C25_Witness ==
    /\ last_op.op = "tick"
    /\ last_op.ret = "liquidated"
    /\ Len(strategy.completed_trades) = TRADE_LOG_CAP + 1
    /\ Len(bot.trade_log) = TRADE_LOG_KEEP
    /\ bot.trade_log[TRADE_LOG_KEEP].action = "liquidated"
    /\ bot.trade_log[1].action = "manual_close"

RECURSIVE Gcd(_, _)
Gcd(a, b) == IF b = 0 THEN a ELSE Gcd(b, a % b)

\* n / d in lowest terms (n >= 0, d > 0)
Lowest(n, d) == [num |-> n \div Gcd(n, d), den |-> d \div Gcd(n, d)]

\* the statistics of the ledger, stated from the Trades; emptyFactor is the
\* profit factor of an empty ledger
StatsOfLedger(emptyFactor) ==
    LET L == strategy.completed_trades
        s == get_stats(strategy)
        wins == {i \in 1..Len(L) : L[i].pnl > 0}
        losses == {i \in 1..Len(L) : L[i].pnl < 0}
        sumWin == SumPnl(SelectSeq(L, IsWin))
        sumLoss == SumPnl(SelectSeq(L, IsLoss))
    IN  /\ s.total_trades = Len(L)
        /\ s.realized_pnl = SumPnl(L)
        /\ L = <<>> => s.win_rate.num = 0
        /\ L # <<>> => FractionIs(s.win_rate, 100 * Cardinality(wins), Len(L))
        /\ L = <<>> => s.profit_factor = emptyFactor
        /\ (L # <<>> /\ losses = {}) => s.profit_factor.inf
        /\ (L # <<>> /\ losses # {}) =>
            /\ ~s.profit_factor.inf
            /\ wins = {} => s.profit_factor.num = 0
            /\ wins # {} =>
                  Lowest(s.profit_factor.num, s.profit_factor.den) =
                      Lowest(sumWin * Cardinality(losses),
                             Cardinality(wins) * (0 - sumLoss))

\* C26 as stated: total_trades is the ledger length, realized_pnl the sum of
\* trade.pnl, win_rate 100 * wins / total_trades and 0 for an empty ledger,
\* profit_factor |avg_win / avg_loss| when avg_loss is non-zero and infinity
\* otherwise, the empty ledger included
C26_StatisticsAsStated == StatsOfLedger(Infinity)

\* C26 amended: as stated, except that for an empty ledger profit_factor is
\* 0; it is infinity when the ledger holds Trades and none of them lost
C26_Statistics == StatsOfLedger([inf |-> FALSE, num |-> 0, den |-> 1])

\* three Trades, two won and one lost: a finite non-zero profit factor
C26_Witness ==
    /\ Len(strategy.completed_trades) = 3
    /\ Len(SelectSeq(strategy.completed_trades, IsWin)) = 2
    /\ Len(SelectSeq(strategy.completed_trades, IsLoss)) = 1
    /\ ~get_stats(strategy).profit_factor.inf
    /\ get_stats(strategy).profit_factor.num > 0

\* C27: under the default configuration and price ticks alone, liquidation
\* closes a position in time for the balance never to be negative.
C27_BalanceNonNegative == strategy.balance >= 0

\* the case of C27: a long opened by the trend was liquidated by a tick at
\* the first quote at or below its liquidation level
C27_Liquidated ==
    /\ last_op.op = "tick"
    /\ last_op.ret = "liquidated"
    /\ last_op.trade.side = "long"
    /\ last_op.trade.entry_price = 10390
    /\ last_op.trade.exit_price = 8727

\* every sample fed so far: the samples that left the window were quoted
\* before the feed became free, so they are the flat and rising quotes
FullHistory ==
    LET n == Len(strategy.price_history)
    IN  [i \in 1..clock |->
            IF i > clock - n THEN strategy.price_history[i - (clock - n)]
            ELSE [timestamp |-> i, price |-> Ramp(i)]]

\* process_price_update of an engine whose add_price never trims
untrimmed_price_update(st, timestamp, price) ==
    LET s1 == [st EXCEPT !.price_history =
                   Append(@, [timestamp |-> timestamp, price |-> price])]
        liq == check_liquidation(s1, price, timestamp)
    IN  IF liq.trade # NoTrade
        THEN [st |-> liq.st, action |-> "liquidated", trade |-> liq.trade]
        ELSE trend_logic(liq.st, timestamp, price)

\* C30: the window never holds more than PRICE_HISTORY_CAP samples, the trim
\* keeps the most recent PRICE_HISTORY_KEEP in their order, and for a
\* lookback with lookback_periods + 1 <= PRICE_HISTORY_KEEP every tick
\* returns the action tag and reaches the position, balance and ledger of an
\* engine that keeps every sample.
C30_WindowCap ==
    [][last_op'.op = "tick" =>
        LET ref == untrimmed_price_update(
                       [strategy EXCEPT !.price_history = FullHistory],
                       clock + 1, bot'.last_price)
            w == strategy'.price_history
            f == ref.st.price_history
        IN  /\ clock - Len(strategy.price_history) < FreeFrom
            /\ Len(w) <= PRICE_HISTORY_CAP
            /\ Len(w) = IF Len(strategy.price_history) = PRICE_HISTORY_CAP
                        THEN PRICE_HISTORY_KEEP
                        ELSE Len(strategy.price_history) + 1
            /\ w = SubSeq(f, Len(f) - Len(w) + 1, Len(f))
            /\ strategy.lookback_periods + 1 <= PRICE_HISTORY_KEEP =>
                  /\ last_op'.ret = ref.action
                  /\ last_op'.trade = ref.trade
                  /\ strategy'.current_position = ref.st.current_position
                  /\ strategy'.balance = ref.st.balance
                  /\ strategy'.completed_trades = ref.st.completed_trades
    ]_vars

\* the tick that trims opens a long on a trend as long as the whole window
\* it has just cut down to
C30_Witness ==
    /\ last_op.op = "tick"
    /\ last_op.ret = "opened_long"
    /\ clock = PRICE_HISTORY_CAP + 1
    /\ Len(strategy.price_history) = PRICE_HISTORY_KEEP
    /\ strategy.lookback_periods + 1 = PRICE_HISTORY_KEEP

\* detect_trend with the bearish test evaluated first
detect_trend_bearish_first(st) ==
    IF Len(st.price_history) < st.lookback_periods + 1 THEN "none"
    ELSE IF lower_lows(st) THEN "bearish"
    ELSE IF higher_highs(st) THEN "bullish"
    ELSE "none"

\* the two tests never both hold on the window detect_trend evaluates, and
\* the order of the tests does not change the result
ExclusiveTrend(st) ==
    /\ Len(st.price_history) >= st.lookback_periods + 1 =>
          ~(higher_highs(st) /\ lower_lows(st))
    /\ detect_trend(st) = detect_trend_bearish_first(st)

\* C31: for every window content and every configuration reachable through
\* the constructor or a parameter update, the "every pair rises" test and
\* the "every pair falls" test of detect_trend never both hold, so the
\* result does not depend on evaluating bullish first.
C31_MutuallyExclusive == ExclusiveTrend(strategy)

\* the part of C31 that holds: with a window of at least two samples
\* (lookback_periods >= 1) and a minimum trend strength that is not negative
C31_ExclusiveFromTwoSamples ==
    (strategy.lookback_periods >= 1 /\ strategy.min_trend_strength >= 0) =>
        ExclusiveTrend(strategy)

\* lookback_periods = 0 set by a parameter update: detect_trend answers
\* bullish on a window of one sample, where both tests hold of no pair
C31_OneSampleWindow ==
    /\ last_op.op = "detect_trend"
    /\ last_op.ret = "bullish"
    /\ cmds > 0
    /\ strategy.lookback_periods = 0
    /\ strategy.min_trend_strength = 5
    /\ Len(strategy.price_history) = 1
    /\ detect_trend_bearish_first(strategy) = "bearish"

====
